---- MODULE Spec2Model ----
(***************************************************************************)
(* The recursive-descent parser of PARSE.C as a state machine.             *)
(*                                                                         *)
(* The C call stack is the variable `stack`: one frame per active call,    *)
(* holding the function's name, the place it resumes at (pc, named after   *)
(* the source line of the call it waits for) and its locals.  One action   *)
(* per C function runs the function from its current place to its next     *)
(* call or to its return.  Tree nodes live in `heap`; a pointer is an      *)
(* index into it and NULL is 0.                                            *)
(***************************************************************************)
EXTENDS Integers, Sequences, FiniteSets, TLC

VARIABLES
    input,        \* the token stream the scanner will deliver (fixed)
    meta,         \* how the input was built (read only by the properties)
    pos,          \* number of getToken() calls made so far
    token,        \* static TokenType token
    tokenString,  \* the scanner's text of the current token
    Error,        \* the global failure flag
    listing,      \* number of "Syntax error at line" diagnostics written
    heap,         \* the allocated TreeNodes
    stack,        \* the C call stack
    ret,          \* the value returned by the call that returned last
    allocFail,    \* how many more allocations the allocator may refuse
    status,       \* "run", "done" (parse returned) or "segv" (trapped)
    nullDeref     \* a NULL pointer has been dereferenced

vars == <<input, meta, pos, token, tokenString, Error, listing, heap, stack,
          ret, allocFail, status, nullDeref>>

-----------------------------------------------------------------------------
(* Bounds of the model *)

MaxLen == 2
MaxOperands == 4
MaxArgs == 2
MaxDims == 2
MaxStmts == 2
MaxAllocFail == 1
MaxFollowerLen == 8

-----------------------------------------------------------------------------
(* Tokens *)

NULL == 0
MAXCHILDREN == 4

TokenTypes ==
    {"ENDFILE", "IF", "THEN", "ELSE", "END", "REPEAT", "UNTIL", "READ",
     "WRITE", "FUNC", "VAR", "WHILE", "FOR", "RETURN", "LAMBDA", "ID", "NUM",
     "ASSIGN", "EQ", "LT", "GT", "PLUS", "MINUS", "AND", "TIMES", "OVER",
     "LPAREN", "RPAREN", "SEMI", "COMMA", "COLON", "LMBRACKET", "RMBRACKET"}

\* a token as the scanner delivers it: its kind and its text
Tok(type, str) == [type |-> type, str |-> str]
K(type) == Tok(type, <<>>)
ID(name) == Tok("ID", name)
NUM(digits) == Tok("NUM", digits)
EndOfFile == K("ENDFILE")

\* the token the n-th call of getToken returns: ENDFILE for ever after the
\* last token of the input
TokenAt(n) == IF n \in 1..Len(input) THEN input[n] ELSE EndOfFile

getToken ==
    /\ pos' = pos + 1
    /\ token' = TokenAt(pos + 1).type
    /\ tokenString' = TokenAt(pos + 1).str

DigitVal(c) ==
    CASE c = "0" -> 0 [] c = "1" -> 1 [] c = "2" -> 2 [] c = "3" -> 3
      [] c = "4" -> 4 [] c = "5" -> 5 [] c = "6" -> 6 [] c = "7" -> 7
      [] c = "8" -> 8 [] c = "9" -> 9

RECURSIVE atoi(_)
atoi(s) ==
    IF s = <<>> THEN 0
    ELSE 10 * atoi(SubSeq(s, 1, Len(s) - 1)) + DigitVal(s[Len(s)])

copyString(s) == s

-----------------------------------------------------------------------------
(* Tree nodes *)

NoAttr == [tag |-> "unset", name |-> <<>>, val |-> 0, op |-> ""]
NameAttr(s) == [tag |-> "name", name |-> s, val |-> 0, op |-> ""]
ValAttr(v) == [tag |-> "val", name |-> <<>>, val |-> v, op |-> ""]
OpAttr(o) == [tag |-> "op", name |-> <<>>, val |-> 0, op |-> o]

Node(nodekind, kind) ==
    [nodekind |-> nodekind, kind |-> kind, attr |-> NoAttr,
     child |-> [i \in 1..MAXCHILDREN |-> NULL], sibling |-> NULL]

\* the allocator's answers: it refuses only while allocFail allows it
AllocChoices == IF allocFail > 0 THEN {TRUE, FALSE} ELSE {TRUE}

\* the heap after the call and the pointer returned, from heap h
newStmtNode(h, kind, ok) ==
    IF ok THEN [heap |-> Append(h, Node("StmtK", kind)), ptr |-> Len(h) + 1]
    ELSE [heap |-> h, ptr |-> NULL]

newExpNode(h, kind, ok) ==
    IF ok THEN [heap |-> Append(h, Node("ExpK", kind)), ptr |-> Len(h) + 1]
    ELSE [heap |-> h, ptr |-> NULL]

\* n->child[i] = c   (i counted from 0 as in the source)
SetChild(h, n, i, c) == [h EXCEPT ![n].child[i + 1] = c]
\* n->sibling = s
SetSibling(h, n, s) == [h EXCEPT ![n].sibling = s]
\* n->attr = a, when n is not NULL
SetAttr(h, n, a) == IF n = NULL THEN h ELSE [h EXCEPT ![n].attr = a]

Child(n, i) == heap[n].child[i + 1]

-----------------------------------------------------------------------------
(* The call stack *)

Frame(fn) ==
    [fn |-> fn, pc |-> "entry", t |-> NULL, p |-> NULL, q |-> NULL,
     root |-> NULL, lst |-> NULL, explicit_dim |-> 0, name |-> <<>>,
     expected |-> ""]

MatchFrame(expected) == [Frame("match") EXCEPT !.expected = expected]
DimFrame(fn, explicit_dim) == [Frame(fn) EXCEPT !.explicit_dim = explicit_dim]
CallFrame(name) == [Frame("call_stmt") EXCEPT !.name = name]

Top == stack[Len(stack)]
Pop == SubSeq(stack, 1, Len(stack) - 1)
Running(fn) == status = "run" /\ stack # <<>> /\ Top.fn = fn

\* the stack after the frame f (the running function) calls g and will
\* resume at pc
CallS(f, pc, g) == Append(Append(Pop, [f EXCEPT !.pc = pc]), g)
\* the stack after the running function moves to pc without a call
JumpS(f, pc) == Append(Pop, [f EXCEPT !.pc = pc])

AllocLeft(ok) == IF ok THEN allocFail ELSE allocFail - 1

\* the running function continues with heap h and stack s, after an
\* allocation that answered ok
GoA(ok, h, s) ==
    /\ heap' = h
    /\ stack' = s
    /\ allocFail' = AllocLeft(ok)
    /\ UNCHANGED <<ret, status, nullDeref>>

\* the same, with no allocation
Go(h, s) == GoA(TRUE, h, s)

\* the running function returns v, after an allocation that answered ok
BackA(ok, h, v) ==
    /\ heap' = h
    /\ stack' = Pop
    /\ ret' = v
    /\ allocFail' = AllocLeft(ok)
    /\ UNCHANGED <<status, nullDeref>>

\* the same, with no allocation
Back(h, v) == BackA(TRUE, h, v)

\* What a build can do with a store through NULL: trap, or lose the store.
UBOutcomes == {"trap", "lost"}

\* a store through the NULL pointer, after which the function would
\* continue with stack s and return register r
NullStore(s, r) ==
    /\ nullDeref' = TRUE
    /\ UNCHANGED <<heap, allocFail>>
    /\ \E out \in UBOutcomes :
          IF out = "trap"
          THEN status' = "segv" /\ UNCHANGED <<stack, ret>>
          ELSE status' = status /\ stack' = s /\ ret' = r

\* n->child[i] = c, then continue with stack s
StoreGo(n, i, c, s) ==
    IF n # NULL THEN Go(SetChild(heap, n, i, c), s) ELSE NullStore(s, ret)

\* n->child[i] = c, then return v
StoreBack(n, i, c, v) ==
    IF n # NULL THEN Back(SetChild(heap, n, i, c), v) ELSE NullStore(Pop, v)

\* the names a read of n->attr.name can give: the name stored, or anything
\* when none was stored (the allocator does not initialise attr)
IndeterminateNames == {<<"x">>, <<>>}
ReadName(n) ==
    IF heap[n].attr.tag = "name" THEN {heap[n].attr.name}
    ELSE IndeterminateNames

\* a report that forgets the failure flag
syntaxError_noFlag ==
    /\ listing' = listing + 1
    /\ UNCHANGED Error

syntaxError ==
    /\ Error' = TRUE
    /\ listing' = listing + 1

Scanner == <<pos, token, tokenString>>
Diag == <<Error, listing>>
Fixed == <<input, meta>>
\* a step that neither reads a token nor reports an error
Quiet == UNCHANGED <<Fixed, Scanner, Diag>>

-----------------------------------------------------------------------------
(* match, and the statement productions *)

\* a match that skips the token it did not expect
match_skip ==
    /\ Running("match")
    /\ IF token = Top.expected
       THEN getToken /\ UNCHANGED Diag
       ELSE syntaxError /\ getToken
    /\ Back(heap, ret)
    /\ UNCHANGED Fixed

\* match(expected): the frame's `expected` is the argument
match ==
    /\ Running("match")
    /\ IF token = Top.expected
       THEN getToken /\ UNCHANGED Diag
       ELSE syntaxError /\ UNCHANGED Scanner
    /\ Back(heap, ret)
    /\ UNCHANGED Fixed

\* a loop that does not stop at end-of-file
StmtSeqStop_noEndfile(tok) == tok \in {"END", "ELSE", "UNTIL"}

\* the tokens at which stmt_sequence stops
StmtSeqStop(tok) == tok \in {"ENDFILE", "END", "ELSE", "UNTIL"}

\* lines 87-97: the second test of the loop body, then the next statement
stmt_sequence_L87(f, h) ==
    IF StmtSeqStop(token) THEN Back(h, f.t)
    ELSE Go(h, CallS(f, "L90", Frame("statement")))

\* lines 83-86: the loop test and the optional separator
stmt_sequence_L83(f, h) ==
    IF StmtSeqStop(token) THEN Back(h, f.t)
    ELSE IF token = "SEMI" THEN Go(h, CallS(f, "L86", MatchFrame("SEMI")))
    ELSE stmt_sequence_L87(f, h)

stmt_sequence ==
    /\ Running("stmt_sequence")
    /\ Quiet
    /\ LET f == Top IN
       CASE f.pc = "entry" -> Go(heap, CallS(f, "L80", Frame("statement")))
         [] f.pc = "L80" -> stmt_sequence_L83([f EXCEPT !.t = ret, !.p = ret], heap)
         [] f.pc = "L86" -> stmt_sequence_L87(f, heap)
         [] f.pc = "L90" ->
              IF ret = NULL THEN stmt_sequence_L83(f, heap)
              ELSE IF f.t = NULL
              THEN stmt_sequence_L83([f EXCEPT !.t = ret, !.p = ret], heap)
              ELSE stmt_sequence_L83([f EXCEPT !.p = ret],
                                     SetSibling(heap, f.p, ret))

\* the switch of statement(): the production a token selects
StatementStart ==
    {"IF", "REPEAT", "ID", "READ", "WRITE", "FUNC", "VAR", "WHILE", "FOR",
     "RETURN"}

StatementCase(tok) ==
    CASE tok = "IF" -> "if_stmt"
      [] tok = "REPEAT" -> "repeat_stmt"
      [] tok = "ID" -> "assign_stmt"
      [] tok = "READ" -> "read_stmt"
      [] tok = "WRITE" -> "write_stmt"
      [] tok = "FUNC" -> "func_stmt"
      [] tok = "VAR" -> "var_stmt"
      [] tok = "WHILE" -> "while_stmt"
      [] tok = "FOR" -> "for_stmt"
      [] tok = "RETURN" -> "return_stmt"

statement ==
    /\ Running("statement")
    /\ UNCHANGED Fixed
    /\ LET f == Top IN
       CASE f.pc = "entry" ->
              IF token \in StatementStart
              THEN /\ UNCHANGED <<Scanner, Diag>>
                   /\ Go(heap, CallS(f, "L105", Frame(StatementCase(token))))
              ELSE IF token \in {"END", "ENDFILE"}
              THEN /\ UNCHANGED <<Scanner, Diag>>
                   /\ Back(heap, NULL)
              ELSE /\ syntaxError
                   /\ getToken
                   /\ Back(heap, NULL)
         [] f.pc = "L105" ->
              /\ UNCHANGED <<Scanner, Diag>>
              /\ Back(heap, ret)

\* lines 154-158
if_stmt_L154(f, h) ==
    IF token = "ELSE" THEN Go(h, CallS(f, "L155", MatchFrame("ELSE")))
    ELSE Go(h, CallS(f, "L158", MatchFrame("END")))

if_stmt ==
    /\ Running("if_stmt")
    /\ Quiet
    /\ LET f == Top IN
       CASE f.pc = "entry" ->
              \E ok \in AllocChoices :
                LET a == newStmtNode(heap, "IfK", ok) IN
                GoA(ok, a.heap, CallS([f EXCEPT !.t = a.ptr], "L150", MatchFrame("IF")))
         [] f.pc = "L150" ->
              IF f.t # NULL THEN Go(heap, CallS(f, "L151", Frame("exp")))
              ELSE Go(heap, CallS(f, "L152", MatchFrame("THEN")))
         [] f.pc = "L151" ->
              Go(SetChild(heap, f.t, 0, ret), CallS(f, "L152", MatchFrame("THEN")))
         [] f.pc = "L152" ->
              IF f.t # NULL THEN Go(heap, CallS(f, "L153", Frame("stmt_sequence")))
              ELSE if_stmt_L154(f, heap)
         [] f.pc = "L153" -> if_stmt_L154(f, SetChild(heap, f.t, 1, ret))
         [] f.pc = "L155" ->
              IF f.t # NULL THEN Go(heap, CallS(f, "L156", Frame("stmt_sequence")))
              ELSE Go(heap, CallS(f, "L158", MatchFrame("END")))
         [] f.pc = "L156" ->
              Go(SetChild(heap, f.t, 2, ret), CallS(f, "L158", MatchFrame("END")))
         [] f.pc = "L158" -> Back(heap, f.t)

repeat_stmt ==
    /\ Running("repeat_stmt")
    /\ Quiet
    /\ LET f == Top IN
       CASE f.pc = "entry" ->
              \E ok \in AllocChoices :
                LET a == newStmtNode(heap, "RepeatK", ok) IN
                GoA(ok, a.heap,
                    CallS([f EXCEPT !.t = a.ptr], "L164", MatchFrame("REPEAT")))
         [] f.pc = "L164" ->
              IF f.t # NULL THEN Go(heap, CallS(f, "L165", Frame("stmt_sequence")))
              ELSE Go(heap, CallS(f, "L166", MatchFrame("UNTIL")))
         [] f.pc = "L165" ->
              Go(SetChild(heap, f.t, 0, ret), CallS(f, "L166", MatchFrame("UNTIL")))
         [] f.pc = "L166" ->
              IF f.t # NULL THEN Go(heap, CallS(f, "L167", Frame("exp")))
              ELSE Back(heap, f.t)
         [] f.pc = "L167" -> Back(SetChild(heap, f.t, 1, ret), f.t)

\* call_stmt(t->attr.name) read through a NULL t: a trap, or a call with
\* whatever the read gave
NullRead(f, pc) ==
    /\ nullDeref' = TRUE
    /\ UNCHANGED <<heap, allocFail, ret>>
    /\ \E out \in UBOutcomes, nm \in IndeterminateNames :
          IF out = "trap"
          THEN status' = "segv" /\ UNCHANGED stack
          ELSE status' = status /\ stack' = CallS(f, pc, CallFrame(nm))

\* t = call_stmt(t->attr.name), resuming at pc
CallByName(f, pc) ==
    IF f.t # NULL
    THEN \E nm \in ReadName(f.t) : Go(heap, CallS(f, pc, CallFrame(nm)))
    ELSE NullRead(f, pc)

assign_stmt ==
    /\ Running("assign_stmt")
    /\ Quiet
    /\ LET f == Top IN
       CASE f.pc = "entry" ->
              \E ok \in AllocChoices :
                LET a == newStmtNode(heap, "AssignK", ok)
                    h == IF a.ptr # NULL /\ token = "ID"
                         THEN SetAttr(a.heap, a.ptr, NameAttr(copyString(tokenString)))
                         ELSE a.heap
                IN GoA(ok, h, CallS([f EXCEPT !.t = a.ptr], "L175", MatchFrame("ID")))
         [] f.pc = "L175" ->
              IF token = "LMBRACKET"
              THEN Go(heap, CallS(f, "L177", DimFrame("dim_exp", 1)))
              ELSE IF token = "ASSIGN"
              THEN IF f.t # NULL THEN Go(heap, CallS(f, "L180", Frame("value_exp")))
                   ELSE Back(heap, f.t)
              ELSE IF token = "LPAREN" THEN CallByName(f, "L182")
              ELSE Back(heap, f.t)
         [] f.pc = "L177" ->
              IF token = "ASSIGN"
              THEN StoreGo(f.t, 0, ret, CallS(f, "L178", Frame("value_exp")))
              ELSE StoreBack(f.t, 0, ret, f.t)
         [] f.pc = "L178" -> StoreBack(f.t, 1, ret, f.t)
         [] f.pc = "L180" -> Back(SetChild(heap, f.t, 0, ret), f.t)
         [] f.pc = "L182" -> Back(heap, ret)

read_stmt ==
    /\ Running("read_stmt")
    /\ Quiet
    /\ LET f == Top IN
       CASE f.pc = "entry" ->
              \E ok \in AllocChoices :
                LET a == newStmtNode(heap, "ReadK", ok) IN
                GoA(ok, a.heap, CallS([f EXCEPT !.t = a.ptr], "L190", MatchFrame("READ")))
         [] f.pc = "L190" ->
              LET h == IF f.t # NULL /\ token = "ID"
                       THEN SetAttr(heap, f.t, NameAttr(copyString(tokenString)))
                       ELSE heap
              IN Go(h, CallS(f, "L193", MatchFrame("ID")))
         [] f.pc = "L193" -> Back(heap, f.t)

write_stmt ==
    /\ Running("write_stmt")
    /\ Quiet
    /\ LET f == Top IN
       CASE f.pc = "entry" ->
              \E ok \in AllocChoices :
                LET a == newStmtNode(heap, "WriteK", ok) IN
                GoA(ok, a.heap, CallS([f EXCEPT !.t = a.ptr], "L199", MatchFrame("WRITE")))
         [] f.pc = "L199" ->
              IF f.t # NULL THEN Go(heap, CallS(f, "L200", Frame("exp")))
              ELSE Back(heap, f.t)
         [] f.pc = "L200" -> Back(SetChild(heap, f.t, 0, ret), f.t)

while_stmt ==
    /\ Running("while_stmt")
    /\ Quiet
    /\ LET f == Top IN
       CASE f.pc = "entry" ->
              \E ok \in AllocChoices :
                LET a == newStmtNode(heap, "WhileK", ok) IN
                GoA(ok, a.heap, CallS([f EXCEPT !.t = a.ptr], "L362", MatchFrame("WHILE")))
         [] f.pc = "L362" -> Go(heap, CallS(f, "L363", MatchFrame("LPAREN")))
         [] f.pc = "L363" ->
              IF f.t # NULL THEN Go(heap, CallS(f, "L365", Frame("exp")))
              ELSE Go(heap, CallS(f, "L367", MatchFrame("RPAREN")))
         [] f.pc = "L365" ->
              Go(SetChild(heap, f.t, 0, ret), CallS(f, "L367", MatchFrame("RPAREN")))
         [] f.pc = "L367" ->
              IF f.t # NULL THEN Go(heap, CallS(f, "L369", Frame("stmt_sequence")))
              ELSE Go(heap, CallS(f, "L371", MatchFrame("END")))
         [] f.pc = "L369" ->
              Go(SetChild(heap, f.t, 1, ret), CallS(f, "L371", MatchFrame("END")))
         [] f.pc = "L371" -> Back(heap, f.t)

return_stmt ==
    /\ Running("return_stmt")
    /\ Quiet
    /\ LET f == Top IN
       CASE f.pc = "entry" ->
              \E ok \in AllocChoices :
                LET a == newStmtNode(heap, "ReturnK", ok) IN
                GoA(ok, a.heap, CallS([f EXCEPT !.t = a.ptr], "L377", MatchFrame("RETURN")))
         [] f.pc = "L377" ->
              IF f.t # NULL THEN Go(heap, CallS(f, "L378", Frame("exp")))
              ELSE Back(heap, f.t)
         [] f.pc = "L378" -> Back(SetChild(heap, f.t, 0, ret), f.t)

\* line 386
func_stmt_L386(f, h) ==
    IF f.t # NULL THEN Go(h, CallS(f, "L386a", Frame("params")))
    ELSE Go(h, CallS(f, "L387", MatchFrame("END")))

func_stmt ==
    /\ Running("func_stmt")
    /\ Quiet
    /\ LET f == Top IN
       CASE f.pc = "entry" ->
              \E ok \in AllocChoices :
                LET a == newStmtNode(heap, "FuncK", ok) IN
                GoA(ok, a.heap, CallS([f EXCEPT !.t = a.ptr], "L384", MatchFrame("FUNC")))
         [] f.pc = "L384" ->
              IF f.t # NULL /\ token = "ID"
              THEN Go(SetAttr(heap, f.t, NameAttr(copyString(tokenString))),
                      CallS(f, "L385", MatchFrame("ID")))
              ELSE func_stmt_L386(f, heap)
         [] f.pc = "L385" -> func_stmt_L386(f, heap)
         [] f.pc = "L386a" ->
              Go(SetChild(heap, f.t, 0, ret), CallS(f, "L386b", Frame("stmt_sequence")))
         [] f.pc = "L386b" ->
              Go(SetChild(heap, f.t, 1, ret), CallS(f, "L387", MatchFrame("END")))
         [] f.pc = "L387" -> Back(heap, f.t)

params ==
    /\ Running("params")
    /\ Quiet
    /\ LET f == Top IN
       CASE f.pc = "entry" ->
              \E ok \in AllocChoices :
                LET a == newExpNode(heap, "ParamsK", ok) IN
                GoA(ok, a.heap, CallS([f EXCEPT !.t = a.ptr], "L393", MatchFrame("LPAREN")))
         [] f.pc = "L393" -> Go(heap, CallS(f, "L394", DimFrame("var_list", 0)))
         [] f.pc = "L394" ->
              StoreGo(f.t, 0, ret, CallS(f, "L395", MatchFrame("RPAREN")))
         [] f.pc = "L395" -> Back(heap, f.t)

\* lines 404-413
for_stmt_L404(f) ==
    IF f.t # NULL THEN Go(heap, CallS(f, "L405", DimFrame("var_list", 1)))
    ELSE Go(heap, CallS(f, "L413", MatchFrame("END")))

for_stmt ==
    /\ Running("for_stmt")
    /\ Quiet
    /\ LET f == Top IN
       CASE f.pc = "entry" ->
              \E ok \in AllocChoices :
                LET a == newStmtNode(heap, "ForK", ok) IN
                GoA(ok, a.heap, CallS([f EXCEPT !.t = a.ptr], "L401", MatchFrame("FOR")))
         [] f.pc = "L401" -> Go(heap, CallS(f, "L402", MatchFrame("LPAREN")))
         [] f.pc = "L402" ->
              IF token = "VAR" THEN Go(heap, CallS(f, "L403", MatchFrame("VAR")))
              ELSE for_stmt_L404(f)
         [] f.pc = "L403" -> for_stmt_L404(f)
         [] f.pc = "L405" ->
              Go(SetChild(heap, f.t, 0, ret), CallS(f, "L406", MatchFrame("SEMI")))
         [] f.pc = "L406" -> Go(heap, CallS(f, "L407", Frame("exp")))
         [] f.pc = "L407" ->
              Go(SetChild(heap, f.t, 1, ret), CallS(f, "L408", MatchFrame("SEMI")))
         [] f.pc = "L408" -> Go(heap, CallS(f, "L409", Frame("assign_stmt")))
         [] f.pc = "L409" ->
              Go(SetChild(heap, f.t, 2, ret), CallS(f, "L410", MatchFrame("RPAREN")))
         [] f.pc = "L410" -> Go(heap, CallS(f, "L411", Frame("stmt_sequence")))
         [] f.pc = "L411" ->
              Go(SetChild(heap, f.t, 3, ret), CallS(f, "L413", MatchFrame("END")))
         [] f.pc = "L413" -> Back(heap, f.t)

LambdaName == <<"l", "a", "m", "b", "d", "a">>

lambda_exp ==
    /\ Running("lambda_exp")
    /\ Quiet
    /\ LET f == Top IN
       CASE f.pc = "entry" ->
              \E ok \in AllocChoices :
                LET a == newStmtNode(heap, "FuncK", ok) IN
                GoA(ok, a.heap, CallS([f EXCEPT !.t = a.ptr], "L419", MatchFrame("LAMBDA")))
         [] f.pc = "L419" ->
              IF f.t # NULL
              THEN Go(SetAttr(heap, f.t, NameAttr(LambdaName)),
                      CallS(f, "L420a", Frame("params")))
              ELSE Back(heap, f.t)
         [] f.pc = "L420a" ->
              Go(SetChild(heap, f.t, 0, ret), CallS(f, "L420b", MatchFrame("COLON")))
         [] f.pc = "L420b" -> Go(heap, CallS(f, "L420c", Frame("exp")))
         [] f.pc = "L420c" -> Back(SetChild(heap, f.t, 1, ret), f.t)

-----------------------------------------------------------------------------
(* The expression productions *)

IsRelOp(tok) == tok \in {"LT", "EQ", "GT"}
IsAddOp(tok) == tok \in {"PLUS", "MINUS", "AND"}
\* a precedence slip: + taken at the multiplicative level
IsMulOp_withPlus(tok) == tok \in {"TIMES", "OVER", "PLUS"}
IsMulOp(tok) == tok \in {"TIMES", "OVER"}

\* lines 208-212 and 224-227, 239-242: the new Op node p takes the tree
\* built so far as its left operand and the current token as its operator
MakeOp(h, p, t) == SetAttr(SetChild(h, p, 0, t), p, OpAttr(token))

exp ==
    /\ Running("exp")
    /\ Quiet
    /\ LET f == Top IN
       CASE f.pc = "entry" -> Go(heap, CallS(f, "L205", Frame("simple_exp")))
         [] f.pc = "L205" ->
              IF IsRelOp(token)
              THEN \E ok \in AllocChoices :
                     LET a == newExpNode(heap, "OpK", ok) IN
                     IF a.ptr # NULL
                     THEN GoA(ok, MakeOp(a.heap, a.ptr, ret),
                              CallS([f EXCEPT !.t = a.ptr, !.p = a.ptr], "L213",
                                    MatchFrame(token)))
                     ELSE GoA(ok, a.heap,
                              CallS([f EXCEPT !.t = ret], "L213", MatchFrame(token)))
              ELSE Back(heap, ret)
         [] f.pc = "L213" ->
              IF f.t # NULL THEN Go(heap, CallS(f, "L215", Frame("simple_exp")))
              ELSE Back(heap, f.t)
         [] f.pc = "L215" -> Back(SetChild(heap, f.t, 1, ret), f.t)

\* lines 222-228: the loop test, the new Op node and the match of its operator
simple_exp_L222(f, h) ==
    IF IsAddOp(token)
    THEN \E ok \in AllocChoices :
           LET a == newExpNode(h, "OpK", ok) IN
           IF a.ptr # NULL
           THEN GoA(ok, MakeOp(a.heap, a.ptr, f.t),
                    CallS([f EXCEPT !.t = a.ptr, !.p = a.ptr], "L228",
                          MatchFrame(token)))
           ELSE GoA(ok, a.heap, JumpS(f, "L222"))
    ELSE Back(h, f.t)

simple_exp ==
    /\ Running("simple_exp")
    /\ Quiet
    /\ LET f == Top IN
       CASE f.pc = "entry" -> Go(heap, CallS(f, "L221", Frame("term")))
         [] f.pc = "L221" -> simple_exp_L222([f EXCEPT !.t = ret], heap)
         [] f.pc = "L222" -> simple_exp_L222(f, heap)
         [] f.pc = "L228" -> Go(heap, CallS(f, "L229", Frame("term")))
         [] f.pc = "L229" -> simple_exp_L222(f, SetChild(heap, f.t, 1, ret))

\* lines 237-243
term_L237(f, h) ==
    IF IsMulOp(token)
    THEN \E ok \in AllocChoices :
           LET a == newExpNode(h, "OpK", ok) IN
           IF a.ptr # NULL
           THEN GoA(ok, MakeOp(a.heap, a.ptr, f.t),
                    CallS([f EXCEPT !.t = a.ptr, !.p = a.ptr], "L243",
                          MatchFrame(token)))
           ELSE GoA(ok, a.heap, JumpS(f, "L237"))
    ELSE Back(h, f.t)

term ==
    /\ Running("term")
    /\ Quiet
    /\ LET f == Top IN
       CASE f.pc = "entry" -> Go(heap, CallS(f, "L236", Frame("factor")))
         [] f.pc = "L236" -> term_L237([f EXCEPT !.t = ret], heap)
         [] f.pc = "L237" -> term_L237(f, heap)
         [] f.pc = "L243" -> Go(heap, CallS(f, "L244", Frame("factor")))
         [] f.pc = "L244" -> term_L237(f, SetChild(heap, f.p, 1, ret))

factor ==
    /\ Running("factor")
    /\ UNCHANGED Fixed
    /\ LET f == Top IN
       CASE f.pc = "entry" ->
              IF token = "NUM"
              THEN /\ UNCHANGED <<Scanner, Diag>>
                   /\ \E ok \in AllocChoices :
                        LET a == newExpNode(heap, "ConstK", ok) IN
                        GoA(ok, SetAttr(a.heap, a.ptr, ValAttr(atoi(tokenString))),
                            CallS([f EXCEPT !.t = a.ptr], "L257", MatchFrame("NUM")))
              ELSE IF token = "ID"
              THEN /\ UNCHANGED <<Scanner, Diag>>
                   /\ \E ok \in AllocChoices :
                        LET a == newExpNode(heap, "IdK", ok) IN
                        GoA(ok, SetAttr(a.heap, a.ptr, NameAttr(copyString(tokenString))),
                            CallS([f EXCEPT !.t = a.ptr], "L263", MatchFrame("ID")))
              ELSE IF token = "LPAREN"
              THEN /\ UNCHANGED <<Scanner, Diag>>
                   /\ Go(heap, CallS(f, "L269", MatchFrame("LPAREN")))
              ELSE /\ syntaxError
                   /\ getToken
                   /\ Back(heap, NULL)
         [] f.pc = "L257" -> UNCHANGED <<Scanner, Diag>> /\ Back(heap, f.t)
         [] f.pc = "L263" ->
              /\ UNCHANGED <<Scanner, Diag>>
              /\ IF token = "LMBRACKET"
                 THEN Go(heap, CallS(f, "L265", DimFrame("dim_exp", 1)))
                 ELSE IF token = "LPAREN" THEN CallByName(f, "L266")
                 ELSE Back(heap, f.t)
         [] f.pc = "L265" -> UNCHANGED <<Scanner, Diag>> /\ StoreBack(f.t, 0, ret, f.t)
         [] f.pc = "L266" -> UNCHANGED <<Scanner, Diag>> /\ Back(heap, ret)
         [] f.pc = "L269" ->
              UNCHANGED <<Scanner, Diag>> /\ Go(heap, CallS(f, "L270", Frame("exp")))
         [] f.pc = "L270" ->
              /\ UNCHANGED <<Scanner, Diag>>
              /\ Go(heap, CallS([f EXCEPT !.t = ret], "L271", MatchFrame("RPAREN")))
         [] f.pc = "L271" -> UNCHANGED <<Scanner, Diag>> /\ Back(heap, f.t)

-----------------------------------------------------------------------------
(* Declarations, initialisers, dimensions and calls *)

var_stmt ==
    /\ Running("var_stmt")
    /\ Quiet
    /\ LET f == Top IN
       CASE f.pc = "entry" ->
              \E ok \in AllocChoices :
                LET a == newStmtNode(heap, "VarK", ok) IN
                GoA(ok, a.heap, CallS([f EXCEPT !.t = a.ptr], "L284", MatchFrame("VAR")))
         [] f.pc = "L284" -> Go(heap, CallS(f, "L285", DimFrame("var_list", 1)))
         [] f.pc = "L285" -> StoreBack(f.t, 0, ret, f.t)

\* lines 305-306
var_list_L305(f, h) ==
    IF token = "COMMA" THEN Go(h, CallS(f, "L305", MatchFrame("COMMA")))
    ELSE Back(h, f.root)

\* lines 300-304
var_list_L300(f, h) ==
    IF token = "ASSIGN" THEN Go(h, CallS(f, "L300", Frame("value_exp")))
    ELSE IF token = "LMBRACKET"
    THEN Go(h, CallS(f, "L302", DimFrame("dim_exp", f.explicit_dim)))
    ELSE var_list_L305(f, h)

\* lines 291-295.  When the allocation fails the token is still ID, so the
\* tests of lines 300, 301 and 305 fail and line 306 leaves the loop.
var_list_L291(f, h) ==
    IF token = "ID"
    THEN \E ok \in AllocChoices :
           LET a == newExpNode(h, "IdK", ok) IN
           IF a.ptr # NULL
           THEN GoA(ok, SetAttr(a.heap, a.ptr, NameAttr(copyString(tokenString))),
                    CallS([f EXCEPT !.p = a.ptr], "L295", MatchFrame("ID")))
           ELSE BackA(ok, a.heap, f.root)
    ELSE Back(h, f.root)

\* lines 296-298, 328-330, 353-355: p joins the list that root heads and
\* lst ends
LinkHeap(h, f) == IF f.lst = NULL THEN h ELSE SetSibling(h, f.lst, f.p)
LinkFrame(f) == [f EXCEPT !.root = IF f.lst = NULL THEN f.p ELSE f.root,
                          !.lst = f.p]

var_list ==
    /\ Running("var_list")
    /\ Quiet
    /\ LET f == Top IN
       CASE f.pc = "entry" -> var_list_L291(f, heap)
         [] f.pc = "L295" -> var_list_L300(LinkFrame(f), LinkHeap(heap, f))
         \* lines 300-303 are reached only after line 298 set lst to a
         \* node just allocated
         [] f.pc = "L300" -> var_list_L305(f, SetChild(heap, f.lst, 0, ret))
         [] f.pc = "L302" ->
              IF token = "ASSIGN" /\ f.explicit_dim # 0
              THEN Go(SetChild(heap, f.lst, 0, ret),
                      CallS(f, "L303", Frame("multi_value_exp")))
              ELSE var_list_L305(f, SetChild(heap, f.lst, 0, ret))
         [] f.pc = "L303" -> var_list_L305(f, SetChild(heap, f.lst, 1, ret))
         [] f.pc = "L305" -> var_list_L291(f, heap)

value_exp ==
    /\ Running("value_exp")
    /\ Quiet
    /\ LET f == Top IN
       CASE f.pc = "entry" ->
              \E ok \in AllocChoices :
                LET a == newExpNode(heap, "ValueK", ok) IN
                IF a.ptr # NULL
                THEN GoA(ok, a.heap,
                         CallS([f EXCEPT !.q = a.ptr], "L314", MatchFrame("ASSIGN")))
                ELSE BackA(ok, a.heap, NULL)
         [] f.pc = "L314" ->
              IF token = "LAMBDA" THEN Go(heap, CallS(f, "L315", Frame("lambda_exp")))
              ELSE Go(heap, CallS(f, "L316", Frame("exp")))
         [] f.pc = "L315" -> Back(SetChild(heap, f.q, 0, ret), f.q)
         [] f.pc = "L316" -> Back(SetChild(heap, f.q, 0, ret), f.q)

\* lines 328-334, after an allocation that answered ok
multi_value_exp_L328(ok, f, h) ==
    IF token = "COMMA"
    THEN GoA(ok, LinkHeap(h, f), CallS(LinkFrame(f), "L331", MatchFrame("COMMA")))
    ELSE GoA(ok, LinkHeap(h, f), CallS(LinkFrame(f), "L334", MatchFrame("RPAREN")))

\* lines 326-327
multi_value_exp_L326(f, h) ==
    \E ok \in AllocChoices :
      LET a == newExpNode(h, "ValueK", ok) IN
      IF a.ptr # NULL
      THEN GoA(ok, a.heap, CallS([f EXCEPT !.p = a.ptr], "L327", Frame("exp")))
      ELSE multi_value_exp_L328(ok, [f EXCEPT !.p = NULL], a.heap)

multi_value_exp ==
    /\ Running("multi_value_exp")
    /\ Quiet
    /\ LET f == Top IN
       CASE f.pc = "entry" -> Go(heap, CallS(f, "L323", MatchFrame("ASSIGN")))
         [] f.pc = "L323" -> Go(heap, CallS(f, "L324", MatchFrame("LPAREN")))
         [] f.pc = "L324" -> multi_value_exp_L326(f, heap)
         [] f.pc = "L327" ->
              multi_value_exp_L328(TRUE, f, SetChild(heap, f.p, 0, ret))
         [] f.pc = "L331" -> multi_value_exp_L326(f, heap)
         [] f.pc = "L334" -> Back(heap, f.root)

\* line 340
dim_exp_L340(f, h) ==
    IF token = "LMBRACKET" THEN Go(h, CallS(f, "L341", MatchFrame("LMBRACKET")))
    ELSE Back(h, f.root)

dim_exp ==
    /\ Running("dim_exp")
    /\ Quiet
    /\ LET f == Top IN
       CASE f.pc = "entry" -> dim_exp_L340(f, heap)
         [] f.pc = "L341" ->
              \E ok \in AllocChoices :
                LET a == newExpNode(heap, "DimK", ok) IN
                GoA(ok, a.heap, JumpS([f EXCEPT !.p = a.ptr], "L343"))
         [] f.pc = "L343" ->
              IF f.p # NULL /\ f.explicit_dim # 0
              THEN IF token = "ID"
                   THEN \E ok \in AllocChoices :
                          LET a == newExpNode(heap, "IdK", ok) IN
                          GoA(ok,
                              SetAttr(a.heap, a.ptr, NameAttr(copyString(tokenString))),
                              CallS([f EXCEPT !.t = a.ptr], "L348", MatchFrame("ID")))
                   ELSE Go(heap, CallS(f, "L350", Frame("simple_exp")))
              ELSE Go(heap, CallS(f, "L352", MatchFrame("RMBRACKET")))
         [] f.pc = "L348" ->
              Go(SetChild(heap, f.p, 0, f.t), CallS(f, "L352", MatchFrame("RMBRACKET")))
         [] f.pc = "L350" ->
              Go(SetChild(heap, f.p, 0, ret), CallS(f, "L352", MatchFrame("RMBRACKET")))
         [] f.pc = "L352" -> dim_exp_L340(LinkFrame(f), LinkHeap(heap, f))

\* a list slip: every argument stored as the first child
LinkArg_first(h, t, lst, p) == SetChild(h, t, 0, p)

\* lines 431-432: the argument p becomes the call's first child or the
\* sibling of the argument before it
LinkArg(h, t, lst, p) ==
    IF lst = NULL THEN SetChild(h, t, 0, p) ELSE SetSibling(h, lst, p)

\* lines 435-438: the stack after the frame f goes on to the next match
call_stmt_L435(f) ==
    IF token = "COMMA" THEN CallS(f, "L435", MatchFrame("COMMA"))
    ELSE CallS(f, "L438", MatchFrame("RPAREN"))

\* line 428
call_stmt_L428(f) ==
    IF token # "RPAREN" THEN Go(heap, CallS(f, "L429", Frame("exp")))
    ELSE Go(heap, CallS(f, "L438", MatchFrame("RPAREN")))

call_stmt ==
    /\ Running("call_stmt")
    /\ Quiet
    /\ LET f == Top IN
       CASE f.pc = "entry" ->
              \E ok \in AllocChoices :
                LET a == newStmtNode(heap, "CallK", ok) IN
                GoA(ok, SetAttr(a.heap, a.ptr, NameAttr(f.name)),
                    CallS([f EXCEPT !.t = a.ptr], "L427", MatchFrame("LPAREN")))
         [] f.pc = "L427" -> call_stmt_L428(f)
         [] f.pc = "L429" ->
              IF ret = NULL THEN Go(heap, call_stmt_L435([f EXCEPT !.p = ret]))
              ELSE IF f.lst = NULL /\ f.t = NULL
              THEN NullStore(call_stmt_L435([f EXCEPT !.p = ret, !.lst = ret]), ret)
              ELSE Go(LinkArg(heap, f.t, f.lst, ret),
                      call_stmt_L435([f EXCEPT !.p = ret, !.lst = ret]))
         [] f.pc = "L435" -> call_stmt_L428(f)
         [] f.pc = "L438" -> Back(heap, f.t)

\* a driver that never reports trailing content
TrailingContent_never(tok) == FALSE

\* line 451
TrailingContent(tok) == tok # "ENDFILE"

parse ==
    /\ Running("parse")
    /\ UNCHANGED Fixed
    /\ LET f == Top IN
       CASE f.pc = "entry" ->
              /\ getToken
              /\ UNCHANGED Diag
              /\ Go(heap, CallS(f, "L450", Frame("stmt_sequence")))
         [] f.pc = "L450" ->
              /\ IF TrailingContent(token) THEN syntaxError ELSE UNCHANGED Diag
              /\ UNCHANGED <<Scanner, heap, ret, allocFail, nullDeref>>
              /\ stack' = <<>>
              /\ status' = "done"

-----------------------------------------------------------------------------
(* The tree a pointer heads, as a value *)

\* A tree is its root's kind and attribute and, for each child slot, the
\* forest the slot heads; a forest is the sequence of the trees of a sibling
\* chain.
RECURSIVE Tree(_), Forest(_)
Tree(n) ==
    [kind |-> heap[n].kind, attr |-> heap[n].attr,
     child |-> [i \in 1..MAXCHILDREN |-> Forest(heap[n].child[i])]]
Forest(n) == IF n = NULL THEN <<>> ELSE <<Tree(n)>> \o Forest(heap[n].sibling)

\* the nodes of the tree that n heads, siblings included
RECURSIVE NodesOf(_)
NodesOf(n) ==
    IF n = NULL THEN {}
    ELSE {n} \cup NodesOf(heap[n].sibling)
             \cup UNION {NodesOf(heap[n].child[i]) : i \in 1..MAXCHILDREN}

\* the kinds along the sibling chain that n heads
RECURSIVE ChainKinds(_)
ChainKinds(n) ==
    IF n = NULL THEN <<>> ELSE <<heap[n].kind>> \o ChainKinds(heap[n].sibling)

\* trees written down directly
MkTree(kind, attr, c0, c1) ==
    [kind |-> kind, attr |-> attr,
     child |-> [i \in 1..MAXCHILDREN |->
                  IF i = 1 THEN c0 ELSE IF i = 2 THEN c1 ELSE <<>>]]
ConstT(v) == MkTree("ConstK", ValAttr(v), <<>>, <<>>)
IdT(name) == MkTree("IdK", NameAttr(name), <<>>, <<>>)
OpT(op, l, r) == MkTree("OpK", OpAttr(op), <<l>>, <<r>>)
CallT(name, args) == MkTree("CallK", NameAttr(name), args, <<>>)
DimT(e) == MkTree("DimK", NoAttr, <<e>>, <<>>)

-----------------------------------------------------------------------------
(* The inputs *)

\* the token of a lexeme ("=" stands for the ASSIGN token and "==" for EQ)
Lex(s) ==
    CASE s = "if" -> K("IF") [] s = "then" -> K("THEN") [] s = "else" -> K("ELSE")
      [] s = "end" -> K("END") [] s = "repeat" -> K("REPEAT")
      [] s = "until" -> K("UNTIL") [] s = "read" -> K("READ")
      [] s = "write" -> K("WRITE") [] s = "func" -> K("FUNC")
      [] s = "var" -> K("VAR") [] s = "while" -> K("WHILE") [] s = "for" -> K("FOR")
      [] s = "return" -> K("RETURN") [] s = "lambda" -> K("LAMBDA")
      [] s = "and" -> K("AND") [] s = "=" -> K("ASSIGN") [] s = "==" -> K("EQ")
      [] s = "<" -> K("LT") [] s = ">" -> K("GT") [] s = "+" -> K("PLUS")
      [] s = "-" -> K("MINUS") [] s = "*" -> K("TIMES") [] s = "/" -> K("OVER")
      [] s = "(" -> K("LPAREN") [] s = ")" -> K("RPAREN") [] s = ";" -> K("SEMI")
      [] s = "," -> K("COMMA") [] s = ":" -> K("COLON")
      [] s = "[" -> K("LMBRACKET") [] s = "]" -> K("RMBRACKET")
      [] s \in {"0", "1", "2", "3", "4", "5", "6", "7", "8", "9"} -> NUM(<<s>>)
      [] s = "12" -> NUM(<<"1", "2">>)
      [] OTHER -> ID(<<s>>)

Toks(lexemes) == [i \in 1..Len(lexemes) |-> Lex(lexemes[i])]

Meta(fam, ops, name, ref, kinds) ==
    [fam |-> fam, ops |-> ops, name |-> name, ref |-> ref, kinds |-> kinds]
Case(toks, m) == [toks |-> toks, meta |-> m]

RECURSIVE Flatten(_)
Flatten(ss) == IF ss = <<>> THEN <<>> ELSE Head(ss) \o Flatten(Tail(ss))

\* the parts joined by the separator
RECURSIVE Join(_, _)
Join(ss, sep) ==
    IF ss = <<>> THEN <<>>
    ELSE IF Len(ss) = 1 THEN ss[1]
    ELSE ss[1] \o sep \o Join(Tail(ss), sep)

\* all sequences over S of the lengths lo..hi
SeqsOf(S, lo, hi) == UNION {[1..n -> S] : n \in lo..hi}

(* every token stream of at most MaxLen tokens *)
Alphabet ==
    {IF ty = "ID" THEN ID(<<"x">>) ELSE IF ty = "NUM" THEN NUM(<<"1">>) ELSE K(ty) :
       ty \in TokenTypes \ {"ENDFILE"}}
StreamCases ==
    {Case(s, Meta("stream", <<>>, <<>>, <<>>, <<>>)) : s \in SeqsOf(Alphabet, 0, MaxLen)}

(* valid statements, one or more for each production *)
ValidStmts ==
    << [toks |-> Toks(<<"read", "x">>), kind |-> "ReadK"],
       [toks |-> Toks(<<"write", "12">>), kind |-> "WriteK"],
       [toks |-> Toks(<<"x", "=", "1", "+", "y">>), kind |-> "AssignK"],
       [toks |-> Toks(<<"x", "[", "1", "]", "=", "(", "2", "-", "1", ")", "/", "3">>),
        kind |-> "AssignK"],
       [toks |-> Toks(<<"if", "x", "<", "1", "then", "write", "x", "end">>),
        kind |-> "IfK"],
       [toks |-> Toks(<<"if", "x", "then", "read", "x", "else", "write", "2", ";",
                        "end">>), kind |-> "IfK"],
       [toks |-> Toks(<<"repeat", "x", "=", "x", "-", "1", "until", "x", "==", "0">>),
        kind |-> "RepeatK"],
       [toks |-> Toks(<<"while", "(", "x", ">", "0", ")", "x", "=", "x", "-", "1",
                        "end">>), kind |-> "WhileK"],
       [toks |-> Toks(<<"for", "(", "var", "i", "=", "0", ";", "i", "<", "3", ";",
                        "i", "=", "i", "+", "1", ")", "write", "i", "end">>),
        kind |-> "ForK"],
       [toks |-> Toks(<<"func", "f", "(", "a", ",", "b", "[", "]", ")", "return",
                        "a", "*", "b", "end">>), kind |-> "FuncK"],
       [toks |-> Toks(<<"var", "a", "[", "2", "]", "=", "(", "1", ",", "2", ")", ",",
                        "b">>), kind |-> "VarK"],
       [toks |-> Toks(<<"var", "g", "=", "lambda", "(", "y", ")", ":", "y", "and",
                        "1">>), kind |-> "VarK"],
       [toks |-> Toks(<<"f", "(", "1", ",", "x", ")">>), kind |-> "CallK"],
       [toks |-> Toks(<<"write", "a", "[", "i", "+", "1", "]">>), kind |-> "WriteK"] >>

\* the programs of at most MaxStmts valid statements, with or without the
\* separator between them: any statement first, then statements of at most
\* MaxFollowerLen tokens
Followers == {k \in 1..Len(ValidStmts) : Len(ValidStmts[k].toks) <= MaxFollowerLen}
ProgOrders ==
    {c \in SeqsOf(1..Len(ValidStmts), 1, MaxStmts) :
       \A i \in 2..Len(c) : c[i] \in Followers}
ProgCases ==
    {Case(Join([i \in 1..Len(c) |-> ValidStmts[c[i]].toks],
               IF sep THEN <<K("SEMI")>> ELSE <<>>),
          Meta("prog", <<>>, <<>>, <<>>, [i \in 1..Len(c) |-> ValidStmts[c[i]].kind])) :
       c \in ProgOrders, sep \in BOOLEAN}

(* a valid statement cut short, or with one token taken out *)
DamagedCases ==
    UNION {{Case(SubSeq(ValidStmts[k].toks, 1, i - 1)
                   \o (IF cut THEN <<>>
                       ELSE SubSeq(ValidStmts[k].toks, i + 1, Len(ValidStmts[k].toks))),
                 Meta("damaged", <<>>, <<>>, <<>>, <<>>)) :
              i \in 1..Len(ValidStmts[k].toks), cut \in BOOLEAN} :
           k \in 1..Len(ValidStmts)}

(* write e, for e a sequence of operands joined by + - * / *)
ArithOps == {"PLUS", "MINUS", "TIMES", "OVER"}
DigitChar(d) ==
    CASE d = 0 -> "0" [] d = 1 -> "1" [] d = 2 -> "2" [] d = 3 -> "3" [] d = 4 -> "4"
      [] d = 5 -> "5" [] d = 6 -> "6" [] d = 7 -> "7" [] d = 8 -> "8" [] d = 9 -> "9"
\* the i-th operand is the literal i
Operand(i) == NUM(<<DigitChar(i)>>)
ExprToks(ops) ==
    <<Operand(1)>> \o Flatten([i \in 1..Len(ops) |-> <<K(ops[i]), Operand(i + 1)>>])
ExprCases ==
    {Case(<<K("WRITE")>> \o ExprToks(ops), Meta("expr", ops, <<>>, <<>>, <<>>)) :
       ops \in SeqsOf(ArithOps, 0, MaxOperands - 1)}

(* a call as a statement, then the same call inside an expression *)
ArgExprs ==
    {[toks |-> Toks(<<"1">>), tree |-> ConstT(1)],
     [toks |-> Toks(<<"2">>), tree |-> ConstT(2)],
     [toks |-> Toks(<<"x">>), tree |-> IdT(<<"x">>)],
     [toks |-> Toks(<<"1", "+", "2">>), tree |-> OpT("PLUS", ConstT(1), ConstT(2))],
     [toks |-> Toks(<<"g", "(", ")">>), tree |-> CallT(<<"g">>, <<>>)]}
CalleeNames == {<<"f">>, <<"sum">>}
CallToks(name, args) ==
    <<ID(name), K("LPAREN")>>
      \o Join([i \in 1..Len(args) |-> args[i].toks], <<K("COMMA")>>)
      \o <<K("RPAREN")>>
CallCases ==
    {Case(CallToks(name, args) \o (IF sep THEN <<K("SEMI")>> ELSE <<>>)
            \o <<K("WRITE")>> \o CallToks(name, args),
          Meta("call", <<>>, name,
               <<CallT(name, [i \in 1..Len(args) |-> args[i].tree])>>, <<>>)) :
       name \in CalleeNames, args \in SeqsOf(ArgExprs, 0, MaxArgs), sep \in BOOLEAN}

(* bracket groups after an identifier, where dim_exp(1) reads them *)
DimExprs ==
    {[toks |-> Toks(<<"3">>), tree |-> ConstT(3)],
     [toks |-> Toks(<<"n">>), tree |-> IdT(<<"n">>)],
     [toks |-> Toks(<<"1", "+", "2">>), tree |-> OpT("PLUS", ConstT(1), ConstT(2))],
     [toks |-> Toks(<<"2", "*", "i">>), tree |-> OpT("TIMES", ConstT(2), IdT(<<"i">>))],
     [toks |-> Toks(<<"i", "+", "1">>), tree |-> OpT("PLUS", IdT(<<"i">>), ConstT(1))]}
DimContexts == {"var", "write", "assign"}
DimToks(ctx, ds) ==
    (IF ctx = "assign" THEN <<>> ELSE <<Lex(ctx)>>)
      \o <<ID(<<"a">>)>>
      \o Flatten([i \in 1..Len(ds) |->
                    <<K("LMBRACKET")>> \o ds[i].toks \o <<K("RMBRACKET")>>])
      \o (IF ctx = "assign" THEN Toks(<<"=", "1">>) ELSE <<>>)
DimCases ==
    {Case(DimToks(ctx, ds),
          Meta("dim", <<>>, <<ctx>>, [i \in 1..Len(ds) |-> DimT(ds[i].tree)], <<>>)) :
       ctx \in DimContexts, ds \in SeqsOf(DimExprs, 1, MaxDims)}

Cases ==
    StreamCases \cup ProgCases \cup DamagedCases \cup ExprCases \cup CallCases
      \cup DimCases

\* the inputs parsed with an allocator that may refuse
AllocCases ==
    {Case(ValidStmts[k].toks, Meta("prog", <<>>, <<>>, <<>>, <<ValidStmts[k].kind>>)) :
       k \in 1..Len(ValidStmts)}

-----------------------------------------------------------------------------
(* The specifications *)

Start(c, refusals) ==
    /\ input = c.toks
    /\ meta = c.meta
    /\ pos = 0
    /\ token = "ENDFILE"
    /\ tokenString = <<>>
    /\ Error = FALSE
    /\ listing = 0
    /\ heap = <<>>
    /\ stack = <<Frame("parse")>>
    /\ ret = NULL
    /\ allocFail = refusals
    /\ status = "run"
    /\ nullDeref = FALSE

\* every allocation succeeds
Init == \E c \in Cases : Start(c, 0)

\* the allocator may refuse up to MaxAllocFail times
InitAlloc == \E c \in AllocCases, n \in 0..MaxAllocFail : Start(c, n)

Next ==
    \/ parse
    \/ match
    \/ stmt_sequence
    \/ statement
    \/ if_stmt
    \/ repeat_stmt
    \/ assign_stmt
    \/ read_stmt
    \/ write_stmt
    \/ while_stmt
    \/ return_stmt
    \/ func_stmt
    \/ params
    \/ for_stmt
    \/ lambda_exp
    \/ exp
    \/ simple_exp
    \/ term
    \/ factor
    \/ var_stmt
    \/ var_list
    \/ value_exp
    \/ multi_value_exp
    \/ dim_exp
    \/ call_stmt

Spec == Init /\ [][Next]_vars

\* the program runs on until parse returns or it traps
SpecLive == Init /\ [][Next]_vars /\ WF_vars(Next)

SpecAlloc == InitAlloc /\ [][Next]_vars

-----------------------------------------------------------------------------
(* The claims *)

Done == status = "done"

\* C1: for every valid program parse() returns a non-null root, leaves the
\* failure flag unset, and the sibling chain from the root holds one node
\* per top-level statement, in source order.
ValidProgramParsed ==
    (Done /\ meta.fam = "prog") =>
        /\ ret # NULL
        /\ ~Error
        /\ ChainKinds(ret) = meta.kinds

\* The tree of the reference grammar for the operands lo..hi of an
\* expression, ops[k] standing between operand k and operand k + 1:
\*   additive       ::= additive (+|-) multiplicative | multiplicative
\*   multiplicative ::= multiplicative (*|/) operand  | operand
RefAdditive == {"PLUS", "MINUS"}
RECURSIVE RefMul(_, _, _), RefAdd(_, _, _)
RefMul(ops, lo, hi) ==
    IF lo = hi THEN ConstT(hi)
    ELSE OpT(ops[hi - 1], RefMul(ops, lo, hi - 1), ConstT(hi))
RefAdd(ops, lo, hi) ==
    LET splits == {k \in lo..(hi - 1) : ops[k] \in RefAdditive} IN
    IF splits = {} THEN RefMul(ops, lo, hi)
    ELSE LET k == CHOOSE m \in splits : \A j \in splits : j <= m
         IN OpT(ops[k], RefAdd(ops, lo, k), RefMul(ops, k + 1, hi))

\* C2: for every sequence of operands joined by + - * /, the tree that
\* simple_exp and term build is the tree of the reference grammar, in which
\* * and / bind tighter than + and - and equal levels associate to the left.
PrecedenceAndAssociativity ==
    (Done /\ meta.fam = "expr") =>
        /\ ~Error
        /\ ret # NULL
        /\ Forest(ret) =
             <<MkTree("WriteK", NoAttr,
                      <<RefAdd(meta.ops, 1, Len(meta.ops) + 1)>>, <<>>)>>

\* 1+2*3 has been parsed into Op(+, 1, Op(*, 2, 3))
PrecedenceWitness ==
    /\ Done
    /\ meta.fam = "expr"
    /\ meta.ops = <<"PLUS", "TIMES">>
    /\ Forest(Child(ret, 0)) =
         <<OpT("PLUS", ConstT(1), OpT("TIMES", ConstT(2), ConstT(3)))>>

\* C3: a call parsed as a statement and the same call parsed inside an
\* expression give structurally identical Call nodes: kind Call, the callee
\* name as attribute, child0 heading a sibling chain of one expression per
\* argument in source order.
CallNodesIdentical ==
    (Done /\ meta.fam = "call") =>
        /\ ~Error
        /\ ret # NULL
        /\ heap[ret].sibling # NULL
        /\ heap[heap[ret].sibling].kind = "WriteK"
        /\ Child(heap[ret].sibling, 0) # NULL
        /\ Tree(ret) = Tree(Child(heap[ret].sibling, 0))
        /\ Tree(ret) = meta.ref[1]

\* f(1,2) and write f(1,2) have been parsed into the same Call node
CallWitness ==
    /\ Done
    /\ meta.fam = "call"
    /\ meta.ref[1] = CallT(<<"f">>, <<ConstT(1), ConstT(2)>>)
    /\ Tree(ret) = Tree(Child(heap[ret].sibling, 0))
    /\ Tree(ret) = CallT(<<"f">>, <<ConstT(1), ConstT(2)>>)

\* C4: for every finite token stream, valid or malformed, followed by
\* end-of-file for ever, parse() eventually returns.
ParseTerminates == <>Done

\* a malformed stream has been parsed to its end, the parser having asked
\* for tokens beyond the end-of-file token
TerminatesWitness ==
    /\ Done
    /\ meta.fam \in {"stream", "damaged"}
    /\ Error
    /\ pos > Len(input) + 1

\* C5 as stated: parse() returns only once the lookahead has reached
\* end-of-file, every token of the input having been examined.
ReturnsOnlyAtEndOfFile == Done => (token = "ENDFILE" /\ pos > Len(input))

\* C5 as amended: parse() returns with the lookahead at end-of-file, or at
\* an end, else or until that closes nothing, in which case it has reported
\* an error and has examined no token after that one.
ReturnsAtEndOfFileOrStrayTerminator ==
    Done =>
        \/ token = "ENDFILE" /\ pos > Len(input)
        \/ /\ token \in {"END", "ELSE", "UNTIL"}
           /\ Error
           /\ pos \in 1..Len(input)
           /\ input[pos].type = token

\* parse() has returned at a stray end with a token of the input unread
StrayTerminatorWitness ==
    /\ Done
    /\ token = "END"
    /\ Error
    /\ pos < Len(input)

\* C6: match(expected) with the lookahead equal to expected advances the
\* lookahead by exactly one token and leaves the failure flag alone; with a
\* different lookahead it reports exactly one syntax error, sets the failure
\* flag and leaves the lookahead and the position in the stream unchanged.
MatchContract ==
    [][(status = "run" /\ stack # <<>> /\ Top.fn = "match") =>
         IF token = Top.expected
         THEN /\ pos' = pos + 1
              /\ token' = TokenAt(pos + 1).type
              /\ tokenString' = TokenAt(pos + 1).str
              /\ Error' = Error
              /\ listing' = listing
         ELSE /\ listing' = listing + 1
              /\ Error' = TRUE
              /\ token' = token
              /\ tokenString' = tokenString
              /\ pos' = pos]_vars

\* on the input "read": match(READ) has advanced and match(ID) has just
\* failed at end-of-file
MatchWitness ==
    /\ status = "run"
    /\ stack # <<>>
    /\ Top.fn = "read_stmt"
    /\ Top.pc = "L193"
    /\ input = Toks(<<"read">>)
    /\ Error
    /\ listing = 1
    /\ pos = 2
    /\ token = "ENDFILE"

\* statement() is entered at a token that begins no statement and is
\* neither end-of-file nor end, or factor() at a token that begins no factor
AtUnexpectedToken ==
    /\ status = "run"
    /\ stack # <<>>
    /\ Top.pc = "entry"
    /\ \/ /\ Top.fn = "statement"
          /\ token \notin {"IF", "REPEAT", "ID", "READ", "WRITE", "FUNC", "VAR",
                           "WHILE", "FOR", "RETURN", "END", "ENDFILE"}
       \/ /\ Top.fn = "factor"
          /\ token \notin {"NUM", "ID", "LPAREN"}

\* C7: statement() or factor() entered at such a token reports exactly one
\* diagnostic, sets the failure flag, discards exactly one token and yields
\* no node, allocating none and returning to its caller; and the input
\* "write" alone yields a Write node with child0 unset, the failure flag
\* set and exactly one diagnostic.
SingleTokenSkip ==
    /\ [][AtUnexpectedToken =>
            /\ listing' = listing + 1
            /\ Error' = TRUE
            /\ pos' = pos + 1
            /\ token' = TokenAt(pos + 1).type
            /\ ret' = NULL
            /\ heap' = heap
            /\ stack' = Pop
            /\ status' = "run"]_vars
    /\ []((Done /\ input = Toks(<<"write">>)) =>
            /\ Error
            /\ listing = 1
            /\ ret # NULL
            /\ Forest(ret) = <<MkTree("WriteK", NoAttr, <<>>, <<>>)>>)

\* "write" alone has been parsed
SkipWitness ==
    /\ Done
    /\ input = Toks(<<"write">>)
    /\ listing = 1
    /\ heap[ret].kind = "WriteK"
    /\ Child(ret, 0) = NULL

\* C8: whatever allocation fails, no production dereferences the NULL it
\* got.
NoNullDereference == ~nullDeref

\* the forest of Dim nodes the input of the "dim" family should give
DimsBuilt ==
    IF meta.name = <<"assign">> THEN Forest(Child(ret, 0))
    ELSE Forest(Child(Child(ret, 0), 0))

\* C9: with explicit_dim true each bracket group whose content is a bare
\* identifier or an additive-level expression, one that begins with an
\* identifier included, is accepted without a syntax error and becomes one
\* Dim node whose child0 is the tree of the whole content, the groups
\* chained by sibling in source order.
DimGroupsAccepted ==
    (Done /\ meta.fam = "dim") =>
        /\ ~Error
        /\ ret # NULL
        /\ Child(ret, 0) # NULL
        /\ DimsBuilt = meta.ref

\* C10: when parse() returns with the failure flag unset the tree is
\* complete: every Assign node has child0, every Var node has a declarator,
\* every Func node has a name, and every comma of the input is followed by
\* a token that begins a further list element.
FlagUnsetMeansComplete ==
    (Done /\ ~Error) =>
        /\ \A n \in NodesOf(ret) :
              /\ heap[n].kind \in {"AssignK", "VarK"} => heap[n].child[1] # NULL
              /\ heap[n].kind = "FuncK" => heap[n].attr.tag = "name"
        /\ \A i \in 1..Len(input) :
              input[i].type = "COMMA" =>
                  /\ i < Len(input)
                  /\ input[i + 1].type \in {"ID", "NUM", "LPAREN"}

====
